---- MODULE Spec2Model ----
(***************************************************************************)
(* Model of the health tracker's nutrition core:                           *)
(*   - find_food_calories and calculate_nutritional_info                   *)
(*     (src/Health_tracker_1.py),                                          *)
(*   - clean_food_dataset (src/clean.py),                                  *)
(*   - the form-submission part of nutrition_tracking_page                 *)
(*     (src/Health_tracker_1.py),                                          *)
(*   - several sessions saving to nutrition_log.csv at once.               *)
(*                                                                         *)
(* Representation.  A Python str is a sequence of one-character strings    *)
(* (<<"2","0","0","g">> is "200g").  Numbers that Python holds as floats   *)
(* are exact rationals here: a stored nutrient value is an integer count   *)
(* of thousandths, a multiplier is a fraction [num, den]; binary rounding  *)
(* of IEEE doubles is not modelled.                                        *)
(***************************************************************************)
EXTENDS Integers, Sequences, FiniteSets, TLC

VARIABLES
    \* find_food_calories called on its own
    m_food_name, m_dataset, m_result,
    \* calculate_nutritional_info: arguments, locals, outcome
    food_entries, query_item, dataset, agg,
    \* clean_food_dataset: the lines read, the loop position, the lines kept,
    \* the output file
    lines, c_pc, c_i, cleaned_lines, output_file,
    \* the app: st.session_state['user_profile'] (whether the key is there,
    \* and its 'name'), the sidebar selection, what the last run of the
    \* script showed, the values of the form's widgets, the locals of the
    \* last run of nutrition_tracking_page,
    \* and the file nutrition_log.csv
    profile_set, profile_name, selection, view, form,
    submitted, page_entries, nutrition_info, nutrition_log,
    \* several browser sessions on the nutrition page at once: for each, its
    \* own session_state and the position and locals of its script run
    sessions

mvars == <<m_food_name, m_dataset, m_result>>
avars == <<food_entries, query_item, dataset, agg>>
cvars == <<lines, c_pc, c_i, cleaned_lines, output_file>>
pvars == <<profile_set, profile_name, selection, view, form,
           submitted, page_entries, nutrition_info, nutrition_log>>
svars == <<sessions>>
vars == <<mvars, avars, cvars, pvars, svars>>

(***************************************************************************)
(* Characters and str methods                                              *)
(***************************************************************************)
UpperLetters == {"A", "B", "G", "M", "L"}
LowerLetters == {"a", "b", "c", "e", "g", "i", "l", "m", "p"}
DecimalDigits == {"0", "2", "5"}
\* "sup2" stands for U+00B2 (superscript two): str.isdigit() is True for it,
\* float() rejects it.
OtherDigits == {"sup2"}

\* str.lower(), one character
LowerChar(c) ==
    CASE c = "A" -> "a"
      [] c = "B" -> "b"
      [] c = "G" -> "g"
      [] c = "M" -> "m"
      [] c = "L" -> "l"
      [] OTHER -> c

\* str.lower()
Lower(s) == [k \in 1..Len(s) |-> LowerChar(s[k])]

\* str.isdigit / str.isalpha, one character
IsDigit(c) == c \in DecimalDigits \cup OtherDigits
IsAlpha(c) == c \in UpperLetters \cup LowerLetters

\* ''.join(filter(pred, s))
FilterDigits(s) == SelectSeq(s, IsDigit)
FilterAlpha(s) == SelectSeq(s, IsAlpha)

\* Python's `sub in s` on strings: sub occurs in s as a contiguous substring
Contains(s, sub) ==
    \E off \in 0..(Len(s) - Len(sub)) :
        \A j \in 1..Len(sub) : s[off + j] = sub[j]

(***************************************************************************)
(* pandas Series.str.contains(pat): regex=True is the default, so pat is   *)
(* compiled as a regular expression and searched in each description.      *)
(* Of the regex syntax the model has the characters of its alphabet: "."   *)
(* matches any character, "(" opens a group (there is no ")" in the        *)
(* alphabet, so a pattern holding "(" does not compile: re.error), every   *)
(* other character matches itself.                                         *)
(***************************************************************************)
RegexCompiles(pat) == \A k \in 1..Len(pat) : pat[k] # "("

RegexSearch(pat, text) ==
    \E off \in 0..(Len(text) - Len(pat)) :
        \A j \in 1..Len(pat) : pat[j] = "." \/ pat[j] = text[off + j]

(***************************************************************************)
(* find_food_calories                                                      *)
(***************************************************************************)
\* exact_matches with line 73 left out: the query is compared as typed
exact_matches_QueryAsTyped(food_name, ds) ==
    SelectSeq(ds, LAMBDA r : Lower(r.description) = food_name)

\* dataset[dataset['Main food description'].str.lower() == food_name]
exact_matches(food_name, ds) ==
    SelectSeq(ds, LAMBDA r : Lower(r.description) = Lower(food_name))

\* dataset[dataset['Main food description'].str.lower().str.contains(food_name)]
partial_matches(food_name, ds) ==
    SelectSeq(ds, LAMBDA r : RegexSearch(Lower(food_name), Lower(r.description)))

NoMatchFound ==
    [calories |-> 0, protein |-> 0, carbs |-> 0, fat |-> 0,
     match_type |-> "No match found"]

ReError == [raised |-> "re.error"]

\* match with iloc[-1] in place of iloc[0]: the last matching record
match_LastRecord(food_name, ds) ==
    IF Len(exact_matches(food_name, ds)) = 0
    THEN partial_matches(food_name, ds)[Len(partial_matches(food_name, ds))]
    ELSE exact_matches(food_name, ds)[Len(exact_matches(food_name, ds))]

\* the record of the dataset the result is computed from (lines 79-96)
match(food_name, ds) ==
    IF Len(exact_matches(food_name, ds)) = 0
    THEN partial_matches(food_name, ds)[1]
    ELSE exact_matches(food_name, ds)[1]

\* FoundResult with the protein left unscaled
FoundResultProteinUnscaled(food_name, ds) ==
    LET m == match(food_name, ds) IN
    [calories |-> m.energy * 100,
     protein |-> m.protein,
     carbs |-> m.carbs * 100,
     fat |-> m.fat * 100,
     match_type |-> IF Len(exact_matches(food_name, ds)) > 0
                    THEN "Exact" ELSE "Partial",
     food_description |-> m.description]

\* the returned dict of a successful lookup (lines 98-108); stored values are
\* thousandths, and so are the returned ones
FoundResult(food_name, ds) ==
    LET m == match(food_name, ds) IN
    [calories |-> m.energy * 100,
     protein |-> m.protein * 100,
     carbs |-> m.carbs * 100,
     fat |-> m.fat * 100,
     match_type |-> IF Len(exact_matches(food_name, ds)) > 0
                    THEN "Exact" ELSE "Partial",
     food_description |-> m.description]

\* find_food_calories with the partial pass tried before the exact one
find_food_calories_PartialFirst(food_name, ds) ==
    IF ~RegexCompiles(Lower(food_name))
    THEN ReError
    ELSE IF Len(partial_matches(food_name, ds)) > 0
    THEN [FoundResult(food_name, ds) EXCEPT
            !.calories = partial_matches(food_name, ds)[1].energy * 100,
            !.protein = partial_matches(food_name, ds)[1].protein * 100,
            !.carbs = partial_matches(food_name, ds)[1].carbs * 100,
            !.fat = partial_matches(food_name, ds)[1].fat * 100,
            !.food_description = partial_matches(food_name, ds)[1].description]
    ELSE NoMatchFound

find_food_calories(food_name, ds) ==
    IF Len(exact_matches(food_name, ds)) = 0
    THEN IF ~RegexCompiles(Lower(food_name))
         THEN ReError
         ELSE IF Len(partial_matches(food_name, ds)) > 0
              THEN FoundResult(food_name, ds)
              ELSE NoMatchFound
    ELSE FoundResult(food_name, ds)

Raised(r) == "raised" \in DOMAIN r

(***************************************************************************)
(* calculate_nutritional_info                                              *)
(*                                                                         *)
(* Amounts (calories, protein, carbs, fat and the totals) are integer      *)
(* counts of 1/100000: a value of the matcher (thousandths) times the      *)
(* numerator of the multiplier, whose denominator is always 100.           *)
(***************************************************************************)
\* FloatParses with the empty string accepted (read as 0)
FloatParsesEmptyAsZero(digits) ==
    \A k \in 1..Len(digits) : digits[k] \in DecimalDigits

\* float(s) for a string of digit characters: ValueError on '' and on a digit
\* that is not a decimal digit
FloatParses(digits) ==
    /\ Len(digits) > 0
    /\ \A k \in 1..Len(digits) : digits[k] \in DecimalDigits

DigitValue(c) == CASE c = "0" -> 0 [] c = "2" -> 2 [] c = "5" -> 5 [] OTHER -> 0

RECURSIVE DigitsToNumber(_)
DigitsToNumber(digits) ==
    IF Len(digits) = 0 THEN 0
    ELSE 10 * DigitsToNumber(SubSeq(digits, 1, Len(digits) - 1))
         + DigitValue(digits[Len(digits)])

\* unit_multipliers.get(unit, 1)
unit_multipliers(unit) ==
    CASE unit = <<"g">> -> 1
      [] unit = <<"m", "l">> -> 1
      [] unit = <<"p", "i", "e", "c", "e">> -> 100
      [] OTHER -> 1

\* quantity / 100 * unit_multipliers.get(unit, 1), as a fraction
Multiplier(quantity, unit) ==
    [num |-> quantity * unit_multipliers(unit), den |-> 100]

\* round-half-even of x (a count of 1/100000) to a count of `step`/100000:
\* f"{v:.0f}" with step 100000, f"{v:.1f}" with step 10000
RoundTo(x, step) ==
    LET q == x \div step
        r == x % step
    IN  IF 2 * r > step \/ (2 * r = step /\ q % 2 = 1) THEN q + 1 ELSE q

\* the f-string of line 175, field by field
breakdown_entry(food_info, quantity_str, calories, protein, carbs, fat) ==
    [food_description |-> food_info.food_description,
     quantity_str |-> quantity_str,
     calories |-> RoundTo(calories, 100000),
     protein |-> RoundTo(protein, 10000),
     carbs |-> RoundTo(carbs, 10000),
     fat |-> RoundTo(fat, 10000)]

Unbound == [bound |-> FALSE]
Bound(v) == [bound |-> TRUE, value |-> v]

\* lines 122-127: the locals before the loop; i is the position of the next
\* entry, find_calls counts the calls of find_food_calories
AggStart ==
    [pc |-> "loop", i |-> 1,
     total_calories |-> 0, total_protein |-> 0,
     total_carbs |-> 0, total_fat |-> 0,
     detailed_breakdown |-> <<>>, unmatched_foods |-> <<>>,
     quantity |-> Unbound, unit |-> Unbound, multiplier |-> Unbound,
     food_info |-> Unbound, find_calls |-> 0]

\* lines 129-176: one iteration of the loop, on entry `entry`
LoopBody(st, entry, q, ds) ==
    LET food_name == entry.name
        quantity_str == entry.quantity
        digits == FilterDigits(quantity_str)
        quantity == DigitsToNumber(digits)
        unit == Lower(FilterAlpha(quantity_str))
        multiplier == Multiplier(quantity, unit)
        food_info == find_food_calories(food_name, ds)
        called == [st EXCEPT !.quantity = Bound(quantity),
                             !.unit = Bound(unit),
                             !.multiplier = Bound(multiplier),
                             !.find_calls = st.find_calls + 1]
        parsed == [called EXCEPT !.i = st.i + 1,
                                 !.food_info = Bound(food_info)]
    IN  IF ~Contains(Lower(food_name), Lower(q))
        THEN [st EXCEPT !.i = st.i + 1]
        ELSE IF ~FloatParses(digits)
        THEN [st EXCEPT !.i = st.i + 1,
                        !.unmatched_foods = Append(st.unmatched_foods, food_name)]
        ELSE IF Raised(food_info)
        THEN [called EXCEPT !.pc = "raised"]
        ELSE IF food_info.match_type = "No match found"
        THEN [parsed EXCEPT
                !.unmatched_foods = Append(st.unmatched_foods, food_name)]
        ELSE LET calories == food_info.calories * multiplier.num
                 protein == food_info.protein * multiplier.num
                 carbs == food_info.carbs * multiplier.num
                 fat == food_info.fat * multiplier.num
             IN  [parsed EXCEPT
                    !.total_calories = st.total_calories + calories,
                    !.total_protein = st.total_protein + protein,
                    !.total_carbs = st.total_carbs + carbs,
                    !.total_fat = st.total_fat + fat,
                    !.detailed_breakdown =
                        Append(st.detailed_breakdown,
                               breakdown_entry(food_info, quantity_str,
                                               calories, protein, carbs, fat))]

\* lines 178-185: "\n".join(detailed_breakdown) is kept as the list of its
\* lines (no character of the alphabet is a line break)
ReturnValue(st) ==
    [total_calories |-> st.total_calories,
     total_protein |-> st.total_protein,
     total_carbs |-> st.total_carbs,
     total_fat |-> st.total_fat,
     breakdown |-> st.detailed_breakdown,
     unmatched_foods |-> st.unmatched_foods]

\* the whole call: the loop run to its end, or to the exception that leaves it
RECURSIVE RunLoop(_, _, _, _)
RunLoop(st, entries, q, ds) ==
    IF st.pc # "loop" THEN st
    ELSE IF st.i > Len(entries) THEN [st EXCEPT !.pc = "returned"]
    ELSE RunLoop(LoopBody(st, entries[st.i], q, ds), entries, q, ds)

calculate_nutritional_info(entries, q, ds) == RunLoop(AggStart, entries, q, ds)

(***************************************************************************)
(* clean_food_dataset                                                      *)
(*                                                                         *)
(* A line of the input is the list of its tokens, line.strip().split().    *)
(* A line of the output is the list of its tab-separated cells; a cell is  *)
(* the list of the pieces joined in it, so '_'.join(["apple", "pie"]) is   *)
(* <<"apple", "_", "pie">>.                                                *)
(***************************************************************************)
FloatTokens == {"1", "2", "3", "4"}

\* float(part) does not raise ValueError
IsFloat(part) == part \in FloatTokens

\* '_'.join(tokens)
RECURSIVE JoinUnderscore(_)
JoinUnderscore(tokens) ==
    IF Len(tokens) = 0 THEN <<>>
    ELSE IF Len(tokens) = 1 THEN <<tokens[1]>>
    ELSE <<tokens[1], "_">> \o JoinUnderscore(Tail(tokens))

\* f"{description}\t" + "\t".join(numeric_parts)
TabLine(description, numeric_parts) ==
    <<description>> \o [k \in 1..Len(numeric_parts) |-> <<numeric_parts[k]>>]

\* parts[-5:]
LastFive(parts) ==
    IF Len(parts) <= 5 THEN parts ELSE SubSeq(parts, Len(parts) - 4, Len(parts))

\* NumericParts with `continue` in place of `break`: every float among the
\* candidates is kept
NumericPartsNoBreak(candidates) == SelectSeq(candidates, IsFloat)

\* lines 54-62: the candidates are scanned from the first one and the scan
\* stops at the first that is not a float
RECURSIVE NumericParts(_)
NumericParts(candidates) ==
    IF Len(candidates) = 0 \/ ~IsFloat(Head(candidates)) THEN <<>>
    ELSE <<Head(candidates)>> \o NumericParts(Tail(candidates))

Skipped == [skipped |-> TRUE]

\* lines 42-75 on one data line: Skipped, or the cleaned line
CleanRow(parts) ==
    LET numeric_parts == NumericParts(LastFive(parts))
        description_parts == SubSeq(parts, 1, Len(parts) - Len(numeric_parts))
    IN  IF Len(parts) < 6 THEN Skipped
        ELSE IF Len(numeric_parts) < 4 THEN Skipped
        ELSE TabLine(JoinUnderscore(description_parts), numeric_parts)

\* lines 25-36
CleanHeader(header_parts) ==
    IF Len(header_parts) > 6
    THEN TabLine(JoinUnderscore(SubSeq(header_parts, 1, Len(header_parts) - 5)),
                 SubSeq(header_parts, Len(header_parts) - 4, Len(header_parts)))
    ELSE [k \in 1..Len(header_parts) |-> <<header_parts[k]>>]

(***************************************************************************)
(* nutrition_tracking_page: the call of line 313 and the save of lines     *)
(* 319-338                                                                 *)
(***************************************************************************)
\* the parameters of calculate_nutritional_info (line 110); none has a default
calculate_nutritional_info_params == <<"food_entries", "query_item", "dataset">>

\* the positional arguments of the call of line 313
PageCallArgs(entries, food_dataset) == <<entries, food_dataset>>

TypeError == [raised |-> "TypeError"]

\* a Python call with positional arguments only: TypeError unless every
\* parameter gets an argument, else the state the call ends in
Call(args) ==
    IF Len(args) # Len(calculate_nutritional_info_params)
    THEN TypeError
    ELSE calculate_nutritional_info(args[1], args[2], args[3])

\* nutrition_log.csv: absent, or its data rows.  A number cell is its value
\* and whether it is written with a decimal point ("0" or "0.0").
NoFile == [exists |-> FALSE, rows |-> <<>>]
File(rows) == [exists |-> TRUE, rows |-> rows]
NumberColumns == {"Total Calories", "Protein (g)", "Carbohydrates (g)", "Fat (g)"}

\* a total is the int 0 it started as when no entry was added to it, and a
\* float after that
Number(total, info) ==
    [value |-> total, float |-> Len(info.breakdown) > 0]

\* lines 320-328
meal_data(intake_date, meal_type, info) ==
    [c \in {"Date", "Meal Type", "Food Items"} \cup NumberColumns |->
        CASE c = "Date" -> intake_date
          [] c = "Meal Type" -> meal_type
          [] c = "Food Items" -> info.breakdown
          [] c = "Total Calories" -> Number(info.total_calories, info)
          [] c = "Protein (g)" -> Number(info.total_protein, info)
          [] c = "Carbohydrates (g)" -> Number(info.total_carbs, info)
          [] c = "Fat (g)" -> Number(info.total_fat, info)]

\* a frame's rows with each number column given one dtype: float64 as soon as
\* one of its values is a float (read_csv's inference, concat's upcast)
Unify(rows) ==
    [k \in 1..Len(rows) |->
        [c \in DOMAIN rows[k] |->
            IF c \in NumberColumns
            THEN [rows[k][c] EXCEPT
                    !.float = \E j \in 1..Len(rows) : rows[j][c].float]
            ELSE rows[k][c]]]

\* lines 331-338: read, concat, write the whole file again
SaveMeal(log, row) ==
    IF log.exists
    THEN File(Unify(Unify(log.rows) \o <<row>>))
    ELSE File(<<row>>)


(***************************************************************************)
(* Inputs                                                                  *)
(***************************************************************************)
MaxNameLen == 2
MaxRecords == 2
MaxEntries == 2
MaxRows == 2
MaxFoods == 2
MaxLogRows == 2

SeqsUpTo(S, n) == UNION {[1..k -> S] : k \in 0..n}

\* records of the reference dataset: description and the stored values of
\* 'Energy (kcal)', 'Protein (g)', 'Carbohydrate (g)', 'Total Fat (g)',
\* in thousandths (0.89 is 890)
Rec(d, e, p, c, f) ==
    [description |-> d, energy |-> e, protein |-> p, carbs |-> c, fat |-> f]

RecAb == Rec(<<"A", "b">>, 890, 11, 230, 3)
RecA == Rec(<<"a">>, 520, 3, 140, 2)
RecUpperA == Rec(<<"A">>, 100, 20, 0, 50)
RecBa == Rec(<<"b", "a">>, 60, 1, 15, 0)
RecParen == Rec(<<"a", "(">>, 250, 25, 5, 10)

Records == {RecAb, RecA, RecUpperA, RecBa, RecParen}

NameChars == {"a", "b", "A", ".", "("}
MatchNames == SeqsUpTo(NameChars, MaxNameLen) \ {<<>>}
MatchDatasets == SeqsUpTo(Records, MaxRecords)

AggNames ==
    {<<"a">>, <<"A", "b">>, <<"a", ".">>, <<"a", "(">>}
Quantities ==
    {<<"2", "0", "0", "g">>,
     <<"2", "p", "i", "e", "c", "e">>,
     <<"5", "0", "M", "L">>,
     <<"2", ".", "5", "m", "l">>,
     <<"a", "b", "c", "g">>,
     <<"sup2", "g">>}
QueryItems == {<<"A">>, <<"b">>}
AggDatasets == {<<RecAb, RecA>>, <<RecParen, RecBa>>}
Entries == [name : AggNames, quantity : Quantities]

Headers ==
    {<<"description", "kcal", "protein", "carb", "fat">>,
     <<"Main", "food", "description", "kcal", "protein", "carb", "fat">>}
Tails == [1..5 -> {"1", "pie"}]
Rows ==
    {<<"apple">> \o t : t \in Tails}
    \cup {<<"apple", "pie", "1", "2", "3", "4">>,
          <<"apple", "pie", "1", "2", "3", "4", "1">>,
          <<"apple", "1", "2", "3", "4">>,
          <<"1", "2", "3", "4", "1">>,
          <<>>}
\* the page: profile names, the loaded dataset, the form's fields
ProfileNames == {"", "ann"}
Sessions == {1, 2}
FoodDataset == <<RecAb, RecA>>
IntakeDate == "2024-01-01"
MealTypes == {"Breakfast", "Dinner"}
FormNames == {<<>>, <<"a">>}
FormQuantities == {<<>>, <<"2", "0", "0", "g">>, <<"a", "b", "c", "g">>}
FormRows == [name : FormNames, quantity : FormQuantities]
\* the widgets' values when first shown (lines 287-299)
DefaultForm ==
    [meal_type |-> "Breakfast", num_foods |-> 1,
     foods |-> <<[name |-> <<>>, quantity |-> <<>>]>>]
ExistingLogs ==
    {NoFile,
     File(<<meal_data(IntakeDate, "Dinner",
                      [total_calories |-> 0, total_protein |-> 0,
                       total_carbs |-> 0, total_fat |-> 0,
                       breakdown |-> <<>>, unmatched_foods |-> <<>>])>>)}

InputFiles ==
    {<<>>} \cup {<<h>> \o rows : h \in Headers, rows \in SeqsUpTo(Rows, MaxRows)}

(***************************************************************************)
(* find_food_calories on its own                                           *)
(***************************************************************************)
NotCalled == [called |-> FALSE]

\* a session before its first script run; `name` is
\* st.session_state['user_profile']['name'], `meal_type` and `entries` the
\* locals of lines 287 and 293, `row` the frame of line 320, `existing_data`
\* the frame of line 332
NoSession ==
    [pc |-> "profile", name |-> "", meal_type |-> "Breakfast",
     entries |-> <<>>, row |-> Unbound, existing_data |-> Unbound]

SessionsIdle == sessions = [s \in Sessions |-> NoSession]

MatchIdle ==
    /\ m_food_name = <<>>
    /\ m_dataset = <<>>
    /\ m_result = NotCalled

AggIdle ==
    /\ food_entries = <<>>
    /\ query_item = <<>>
    /\ dataset = <<>>
    /\ agg = AggStart

CleanIdle ==
    /\ lines = <<>>
    /\ c_pc = "idle"
    /\ c_i = 0
    /\ cleaned_lines = <<>>
    /\ output_file = <<>>

PageIdle ==
    /\ profile_set = FALSE
    /\ profile_name = ""
    /\ selection = "profile"
    /\ view = "none"
    /\ form = DefaultForm
    /\ submitted = FALSE
    /\ page_entries = <<>>
    /\ nutrition_info = Unbound
    /\ nutrition_log = NoFile

InitMatch ==
    /\ m_food_name \in MatchNames
    /\ m_dataset \in MatchDatasets
    /\ m_result = NotCalled
    /\ AggIdle
    /\ CleanIdle
    /\ PageIdle
    /\ SessionsIdle

FindFoodCalories ==
    /\ m_result = NotCalled
    /\ m_result' = find_food_calories(m_food_name, m_dataset)
    /\ UNCHANGED <<m_food_name, m_dataset, avars, cvars, pvars, svars>>

NextMatch == FindFoodCalories

SpecMatch == InitMatch /\ [][NextMatch]_vars

(***************************************************************************)
(* calculate_nutritional_info, one loop iteration per step                 *)
(***************************************************************************)
InitAgg ==
    /\ food_entries \in SeqsUpTo(Entries, MaxEntries)
    /\ query_item \in QueryItems
    /\ dataset \in AggDatasets
    /\ agg = AggStart
    /\ MatchIdle
    /\ CleanIdle
    /\ PageIdle
    /\ SessionsIdle

Iterate ==
    /\ agg.pc = "loop"
    /\ agg.i <= Len(food_entries)
    /\ agg' = LoopBody(agg, food_entries[agg.i], query_item, dataset)
    /\ UNCHANGED <<food_entries, query_item, dataset, mvars, cvars, pvars, svars>>

Return ==
    /\ agg.pc = "loop"
    /\ agg.i > Len(food_entries)
    /\ agg' = [agg EXCEPT !.pc = "returned"]
    /\ UNCHANGED <<food_entries, query_item, dataset, mvars, cvars, pvars, svars>>

NextAgg == Iterate \/ Return

SpecAgg == InitAgg /\ [][NextAgg]_vars

(***************************************************************************)
(* Properties of calculate_nutritional_info and find_food_calories         *)
(***************************************************************************)
Entry == food_entries[agg.i]
IterateStep == agg.pc = "loop" /\ agg.i <= Len(food_entries)
PassesFilter(e) == Contains(Lower(e.name), Lower(query_item))
TotalsOf(st) ==
    <<st.total_calories, st.total_protein, st.total_carbs, st.total_fat>>
IndexSeq(n) == [k \in 1..n |-> k]

\* C1: once the call is over it has returned a result in which every entry
\* whose name contains query_item is either one breakdown line or one name of
\* unmatched_foods (never both, never neither), every other entry is in
\* neither, and both lists are in the order of the entries.
C1_AccountedOnce ==
    agg.pc # "loop" =>
        /\ agg.pc = "returned"
        /\ \E a \in [1..Len(food_entries) -> {"line", "unmatched", "neither"}] :
            LET lineIdx == SelectSeq(IndexSeq(Len(food_entries)),
                                   LAMBDA k : a[k] = "line")
                unmIdx == SelectSeq(IndexSeq(Len(food_entries)),
                                 LAMBDA k : a[k] = "unmatched")
                res == ReturnValue(agg)
            IN  /\ \A k \in 1..Len(food_entries) :
                      a[k] = "neither" <=> ~PassesFilter(food_entries[k])
                /\ res.unmatched_foods =
                      [j \in 1..Len(unmIdx) |-> food_entries[unmIdx[j]].name]
                /\ Len(res.breakdown) = Len(lineIdx)
                /\ \A j \in 1..Len(lineIdx) :
                      res.breakdown[j].quantity_str =
                          food_entries[lineIdx[j]].quantity

\* the accounting of C1 on the calls that return
ReturnedAccountedOnce ==
    agg.pc = "returned" => C1_AccountedOnce

\* C2: when some record's lower-cased description equals the lower-cased
\* query, the result is 'Exact' and is one of those records, wherever the
\* records that only contain the query stand; 'Partial' is returned only when
\* no record is equal.
IsExactRecord(r, name) == Lower(r.description) = Lower(name)
IsResultOf(res, r) ==
    /\ res.food_description = r.description
    /\ res.calories = r.energy * 100
    /\ res.protein = r.protein * 100
    /\ res.carbs = r.carbs * 100
    /\ res.fat = r.fat * 100

C2_ExactPrecedence ==
    m_result # NotCalled =>
        LET hasExact == \E k \in 1..Len(m_dataset) :
                            IsExactRecord(m_dataset[k], m_food_name)
        IN  /\ hasExact =>
                /\ ~Raised(m_result)
                /\ m_result.match_type = "Exact"
                /\ \E k \in 1..Len(m_dataset) :
                      /\ IsExactRecord(m_dataset[k], m_food_name)
                      /\ IsResultOf(m_result, m_dataset[k])
            /\ (~Raised(m_result) /\ m_result.match_type = "Partial")
                  => ~hasExact

\* an exact match returned although a record that only contains the query
\* comes before it
C2_Witness ==
    /\ m_result # NotCalled
    /\ ~Raised(m_result)
    /\ m_result.match_type = "Exact"
    /\ Len(m_dataset) = 2
    /\ ~IsExactRecord(m_dataset[1], m_food_name)
    /\ Contains(Lower(m_dataset[1].description), Lower(m_food_name))
    /\ IsExactRecord(m_dataset[2], m_food_name)
    /\ IsResultOf(m_result, m_dataset[2])

\* C12: a query name that differs from the called one only in the case of its
\* letters gives the same outcome on the same dataset: the same match_type,
\* food_description and four values (or the same exception).
CasePairs == {{"A", "a"}, {"B", "b"}, {"G", "g"}, {"M", "m"}, {"L", "l"}}
DifferOnlyInCase(n1, n2) ==
    /\ Len(n1) = Len(n2)
    /\ \A k \in 1..Len(n1) : n1[k] = n2[k] \/ {n1[k], n2[k]} \in CasePairs

C12_CaseInsensitive ==
    m_result # NotCalled =>
        \A other \in MatchNames :
            DifferOnlyInCase(other, m_food_name) =>
                find_food_calories(other, m_dataset) = m_result

\* the query holds an upper-case letter and the description it is matched
\* with is written in another case
C12_Witness ==
    /\ m_result # NotCalled
    /\ ~Raised(m_result)
    /\ m_result.match_type = "Exact"
    /\ m_food_name # Lower(m_food_name)
    /\ m_result.food_description # m_food_name
    /\ \E other \in MatchNames :
          other # m_food_name /\ DifferOnlyInCase(other, m_food_name)

\* C13: the result is computed from the first, in the dataset's order, of the
\* records the deciding pass selects: the first record equal to the query
\* when one is, else the first record the partial pass finds the query in.
FirstIndex(P(_), ds) ==
    CHOOSE k \in 1..Len(ds) : P(ds[k]) /\ \A j \in 1..(k - 1) : ~P(ds[j])

NoRecordMatches(name, ds) ==
    \A k \in 1..Len(ds) :
        /\ Lower(ds[k].description) # Lower(name)
        /\ ~Contains(Lower(ds[k].description), Lower(name))

C3_NoMatchUnmatched ==
    [][(IterateStep /\ PassesFilter(Entry)
            /\ NoRecordMatches(Entry.name, dataset))
        => /\ find_food_calories(Entry.name, dataset) = NoMatchFound
           /\ agg'.unmatched_foods = Append(agg.unmatched_foods, Entry.name)
           /\ agg'.detailed_breakdown = agg.detailed_breakdown
           /\ TotalsOf(agg') = TotalsOf(agg)]_vars

\* C4 as amended: an entry that passes the query filter and whose quantity
\* string has no decimal digit gets its name appended once to unmatched_foods,
\* with no call of find_food_calories, no change of the totals or of the
\* breakdown, and the loop goes on with the next entry.
NoDecimalDigit(s) == \A k \in 1..Len(s) : s[k] \notin DecimalDigits
UnparsableHandled ==
    /\ agg'.unmatched_foods = Append(agg.unmatched_foods, Entry.name)
    /\ agg'.find_calls = agg.find_calls
    /\ TotalsOf(agg') = TotalsOf(agg)
    /\ agg'.detailed_breakdown = agg.detailed_breakdown
    /\ agg'.pc = "loop"
    /\ agg'.i = agg.i + 1

C4_UnparsableQuantityFiltered ==
    [][(IterateStep /\ PassesFilter(Entry) /\ NoDecimalDigit(Entry.quantity))
        => UnparsableHandled]_vars

\* C4 as stated: the same of every entry whose quantity string has no decimal
\* digit.
C4_UnparsableQuantity ==
    [][(IterateStep /\ NoDecimalDigit(Entry.quantity))
        => UnparsableHandled]_vars

\* an entry with no decimal digit recorded as unmatched, and the entry after it processed
\* into a breakdown line
C4_Witness ==
    /\ agg.pc = "returned"
    /\ Len(food_entries) = 2
    /\ PassesFilter(food_entries[1])
    /\ NoDecimalDigit(food_entries[1].quantity)
    /\ agg.unmatched_foods = <<food_entries[1].name>>
    /\ Len(agg.detailed_breakdown) = 1
    /\ agg.find_calls = 1

\* C5: the multiplier computed for a quantity string, a decimal numeral
\* followed by a unit, is (the number written) / 100 * m with m = 1 for 'g',
\* 1 for 'ml', 100 for 'piece' and 1 for any other unit.
NumeralChars == DecimalDigits \cup {"."}
NumeralLen(s) ==
    IF \A k \in 1..Len(s) : s[k] \in NumeralChars THEN Len(s)
    ELSE (CHOOSE k \in 1..Len(s) :
             /\ s[k] \notin NumeralChars
             /\ \A j \in 1..(k - 1) : s[j] \in NumeralChars) - 1
Numeral(s) == SubSeq(s, 1, NumeralLen(s))
UnitPart(s) == SubSeq(s, NumeralLen(s) + 1, Len(s))
IsNumeralThenUnit(s) ==
    /\ Len(SelectSeq(Numeral(s), LAMBDA c : c \in DecimalDigits)) > 0
    /\ Len(SelectSeq(Numeral(s), LAMBDA c : c = ".")) <= 1
    /\ \A k \in 1..Len(UnitPart(s)) : IsAlpha(UnitPart(s)[k])

RECURSIVE Pow10(_)
Pow10(n) == IF n = 0 THEN 1 ELSE 10 * Pow10(n - 1)

\* the number the numeral writes, as a fraction
WrittenMagnitude(s) ==
    LET n == Numeral(s)
        dot == IF \E k \in 1..Len(n) : n[k] = "."
               THEN CHOOSE k \in 1..Len(n) : n[k] = "."
               ELSE Len(n) + 1
        decimals == IF dot > Len(n) THEN 0 ELSE Len(n) - dot
    IN  [num |-> DigitsToNumber(SelectSeq(n, LAMBDA c : c \in DecimalDigits)),
         den |-> Pow10(decimals)]

ClaimedUnitMultiplier(unit) ==
    IF unit = <<"p", "i", "e", "c", "e">> THEN 100 ELSE 1

ClaimedScaleFactor(s) ==
    [num |-> WrittenMagnitude(s).num * ClaimedUnitMultiplier(Lower(UnitPart(s))),
     den |-> WrittenMagnitude(s).den * 100]

RatEq(a, b) == a.num * b.den = b.num * a.den

C5_ScaleFactor ==
    [][(IterateStep /\ PassesFilter(Entry)
            /\ FloatParses(FilterDigits(Entry.quantity))
            /\ IsNumeralThenUnit(Entry.quantity))
        => /\ agg'.multiplier.bound
           /\ RatEq(agg'.multiplier.value,
                    ClaimedScaleFactor(Entry.quantity))]_vars

\* C6: each total is the sum, over the entries that produced a breakdown
\* line, of the matched record's stored value * 100 * the entry's scale
\* factor, from 0; here as the loop invariant over the entries already
\* processed (all of them once the call has returned).
ProducesLine(e) ==
    /\ PassesFilter(e)
    /\ FloatParses(FilterDigits(e.quantity))
    /\ ~Raised(find_food_calories(e.name, dataset))
    /\ find_food_calories(e.name, dataset).match_type # "No match found"

\* 100 * the scale factor of the entry (the factor's denominator is 100)
ScaleFactorNum(e) ==
    DigitsToNumber(FilterDigits(e.quantity))
        * unit_multipliers(Lower(FilterAlpha(e.quantity)))

RECURSIVE SumOver(_)
SumOver(es) ==
    IF Len(es) = 0 THEN [energy |-> 0, protein |-> 0, carbs |-> 0, fat |-> 0]
    ELSE LET rest == SumOver(Tail(es))
             record == match(Head(es).name, dataset)
             factor == 100 * ScaleFactorNum(Head(es))
         IN  [energy |-> rest.energy + record.energy * factor,
              protein |-> rest.protein + record.protein * factor,
              carbs |-> rest.carbs + record.carbs * factor,
              fat |-> rest.fat + record.fat * factor]

C6_TotalsAreSums ==
    LET done == SelectSeq(SubSeq(food_entries, 1, agg.i - 1), ProducesLine)
        sums == SumOver(done)
    IN  /\ agg.total_calories = sums.energy
        /\ agg.total_protein = sums.protein
        /\ agg.total_carbs = sums.carbs
        /\ agg.total_fat = sums.fat
        /\ Len(agg.detailed_breakdown) = Len(done)

\* the spec's example: stored energy 0.89 and protein 0.011 taken with "200g"
\* give 178 calories and 2.2 protein, after an entry recorded as unmatched
C6_Witness ==
    /\ agg.pc = "returned"
    /\ Len(food_entries) = 2
    /\ Len(agg.unmatched_foods) = 1
    /\ food_entries[2].quantity = <<"2", "0", "0", "g">>
    /\ agg.total_calories = 178 * 100000
    /\ agg.total_protein = 22 * 10000

(***************************************************************************)
(* clean_food_dataset, one data line per step                              *)
(***************************************************************************)
InitClean ==
    /\ lines \in InputFiles
    /\ c_pc = "start"
    /\ c_i = 0
    /\ cleaned_lines = <<>>
    /\ output_file = <<>>
    /\ MatchIdle
    /\ AggIdle
    /\ PageIdle
    /\ SessionsIdle

\* lines 20-22
EmptyInput ==
    /\ c_pc = "start"
    /\ Len(lines) = 0
    /\ c_pc' = "returned_none"
    /\ UNCHANGED <<lines, c_i, cleaned_lines, output_file, mvars, avars, pvars, svars>>

\* lines 25-38
Header ==
    /\ c_pc = "start"
    /\ Len(lines) > 0
    /\ cleaned_lines' = <<CleanHeader(lines[1])>>
    /\ c_i' = 2
    /\ c_pc' = "rows"
    /\ UNCHANGED <<lines, output_file, mvars, avars, pvars, svars>>

\* lines 41-75, one iteration
CleanLine ==
    /\ c_pc = "rows"
    /\ c_i <= Len(lines)
    /\ cleaned_lines' =
          IF CleanRow(lines[c_i]) = Skipped THEN cleaned_lines
          ELSE Append(cleaned_lines, CleanRow(lines[c_i]))
    /\ c_i' = c_i + 1
    /\ UNCHANGED <<lines, c_pc, output_file, mvars, avars, pvars, svars>>

\* lines 78-79
WriteOutput ==
    /\ c_pc = "rows"
    /\ c_i > Len(lines)
    /\ output_file' = cleaned_lines
    /\ c_pc' = "written"
    /\ UNCHANGED <<lines, c_i, cleaned_lines, mvars, avars, pvars, svars>>

NextClean == EmptyInput \/ Header \/ CleanLine \/ WriteOutput

SpecClean == InitClean /\ [][NextClean]_vars

(***************************************************************************)
(* Properties of clean_food_dataset                                        *)
(***************************************************************************)
Row == lines[c_i]
CleanStep == c_pc = "rows" /\ c_i <= Len(lines)

\* the maximal run of float tokens at the right end of the last 5 tokens
RECURSIVE TrailingFloats(_)
TrailingFloats(tokens) ==
    IF Len(tokens) = 0 \/ ~IsFloat(tokens[Len(tokens)]) THEN <<>>
    ELSE Append(TrailingFloats(SubSeq(tokens, 1, Len(tokens) - 1)),
                tokens[Len(tokens)])
RightRun(parts) == TrailingFloats(LastFive(parts))

\* C7: of each data row the numeric fields kept are the maximal run of float
\* tokens at the right end of its last 5 tokens; the row is dropped exactly
\* when that run has fewer than 4 tokens; the description of a kept row is the
\* underscore-join of all the tokens to the left of the run.
C7_RightRunKept ==
    [][CleanStep =>
        IF Len(RightRun(Row)) < 4
        THEN cleaned_lines' = cleaned_lines
        ELSE cleaned_lines' =
                Append(cleaned_lines,
                       TabLine(JoinUnderscore(
                                   SubSeq(Row, 1, Len(Row) - Len(RightRun(Row)))),
                               RightRun(Row)))]_vars

\* the number of float tokens the row ends in
TrailingCount(parts) == Len(TrailingFloats(parts))

\* C8 as stated: a file whose data rows all end in exactly 5 float tokens is
\* written with one output row per data row, in the order of the rows; and a
\* data row that ends in only 3 float tokens adds no output row.
OutputOfFiveRows ==
    /\ Len(output_file) = Len(lines)
    /\ \A k \in 2..Len(lines) :
          output_file[k] =
              TabLine(JoinUnderscore(SubSeq(lines[k], 1, Len(lines[k]) - 5)),
                      SubSeq(lines[k], Len(lines[k]) - 4, Len(lines[k])))

ThreeFloatRowDropped ==
    (CleanStep /\ TrailingCount(Row) = 3) => cleaned_lines' = cleaned_lines

C8_FiveKeptThreeDropped ==
    /\ [](( /\ c_pc = "written"
            /\ \A k \in 2..Len(lines) : TrailingCount(lines[k]) = 5)
          => OutputOfFiveRows)
    /\ [][ThreeFloatRowDropped]_vars

\* C8 as amended: the same of a file whose data rows all have a description
\* token before their exactly 5 float tokens (6 tokens or more).
C8_FiveKeptThreeDroppedAmended ==
    /\ [](( /\ c_pc = "written"
            /\ \A k \in 2..Len(lines) :
                  TrailingCount(lines[k]) = 5 /\ Len(lines[k]) >= 6)
          => OutputOfFiveRows)
    /\ [][ThreeFloatRowDropped]_vars

\* two different rows of a description and 5 float tokens, written in their
\* order
C8_Witness ==
    /\ c_pc = "written"
    /\ Len(lines) = 3
    /\ TrailingCount(lines[2]) = 5 /\ Len(lines[2]) >= 6
    /\ TrailingCount(lines[3]) = 5 /\ Len(lines[3]) >= 6
    /\ lines[2] # lines[3]
    /\ Len(output_file) = 3

(***************************************************************************)
(* The app: one run of the script per step                                 *)
(***************************************************************************)
InitPage ==
    /\ profile_set = FALSE
    /\ profile_name = ""
    /\ selection = "profile"
    /\ view = "none"
    /\ form = DefaultForm
    /\ submitted = FALSE
    /\ page_entries = <<>>
    /\ nutrition_info = Unbound
    /\ nutrition_log \in ExistingLogs
    /\ MatchIdle
    /\ AggIdle
    /\ CleanIdle
    /\ SessionsIdle

\* user_profile_page with `name` in the "Full Name" input (lines 188-198);
\* the form is not rendered, and its widgets lose their values
RunProfilePage(name) ==
    /\ profile_set' = TRUE
    /\ profile_name' = name
    /\ view' = "profile"
    /\ form' = DefaultForm
    /\ submitted' = FALSE
    /\ page_entries' = <<>>
    /\ nutrition_info' = Unbound
    /\ UNCHANGED nutrition_log

\* FormEntries with `if food_name:` at line 301: a row with a name and no
\* quantity is an entry too
FormEntries_NameOnly(f) ==
    SelectSeq(f.foods, LAMBDA r : r.name # <<>>)

\* lines 293-305: the entries of the rows with a name and a quantity
FormEntries(f) ==
    SelectSeq(f.foods, LAMBDA r : r.name # <<>> /\ r.quantity # <<>>)

\* nutrition_tracking_page (lines 267-377) run with the widgets holding f and
\* the "Record Meal" button pressed or not
RunNutritionPage(f, pressed) ==
    IF ~profile_set \/ profile_name = ""
    THEN /\ view' = "warning"
         /\ form' = DefaultForm
         /\ submitted' = FALSE
         /\ page_entries' = <<>>
         /\ nutrition_info' = Unbound
         /\ UNCHANGED <<profile_set, profile_name, nutrition_log>>
    ELSE LET entries == FormEntries(f)
             call == Call(PageCallArgs(entries, FoodDataset))
             info == ReturnValue(call)
         IN  /\ form' = f
             /\ submitted' = pressed
             /\ page_entries' = entries
             /\ UNCHANGED <<profile_set, profile_name>>
             /\ IF pressed /\ entries # <<>>
                THEN IF Raised(call) \/ call.pc = "raised"
                     THEN /\ view' = "exception"
                          /\ nutrition_info' = Unbound
                          /\ UNCHANGED nutrition_log
                     ELSE /\ nutrition_info' = Bound(info)
                          /\ nutrition_log' =
                                SaveMeal(nutrition_log,
                                         meal_data(IntakeDate, f.meal_type, info))
                          /\ view' = "form_and_log"
                ELSE /\ nutrition_info' = Unbound
                     /\ UNCHANGED nutrition_log
                     /\ view' = IF nutrition_log.exists
                                THEN "form_and_log" ELSE "form_no_log"

FormShown == view \in {"form_and_log", "form_no_log", "exception"}

\* the user types a name on the profile page
EditProfile ==
    /\ selection = "profile"
    /\ \E name \in ProfileNames : RunProfilePage(name)
    /\ UNCHANGED <<selection, mvars, avars, cvars, svars>>

\* the user picks a page in the sidebar (lines 383-391)
Navigate ==
    /\ view # "none"
    /\ \E p \in {"profile", "nutrition"} :
          /\ selection' = p
          /\ IF p = "profile"
             THEN RunProfilePage(profile_name)
             ELSE RunNutritionPage(form, FALSE)
    /\ UNCHANGED <<mvars, avars, cvars, svars>>

\* the user fills the rows the form shows, picks a meal type and a number of
\* food items, and presses "Record Meal"; a row the form did not show yet
\* comes up empty (the log is kept to MaxLogRows rows)
SubmitMeal ==
    /\ selection = "nutrition"
    /\ FormShown
    /\ Len(nutrition_log.rows) < MaxLogRows
    /\ \E mt \in MealTypes, n \in 1..MaxFoods,
          rows \in [1..form.num_foods -> FormRows] :
          RunNutritionPage(
              [meal_type |-> mt, num_foods |-> n,
               foods |-> [k \in 1..n |->
                            IF k <= Len(rows) THEN rows[k]
                            ELSE [name |-> <<>>, quantity |-> <<>>]]],
              TRUE)
    /\ UNCHANGED <<selection, mvars, avars, cvars, svars>>

NextPage == EditProfile \/ Navigate \/ SubmitMeal

SpecPage == InitPage /\ [][NextPage]_vars

(***************************************************************************)
(* Properties of the nutrition tracking page                               *)
(***************************************************************************)
\* C9: a submission with at least one entry that has a name and a quantity
\* ends with the result of the pass (totals, breakdown, unmatched list)
\* returned to the page, and with no exception.
C9_SubmissionRunsPass ==
    (submitted /\ page_entries # <<>>) =>
        /\ view # "exception"
        /\ nutrition_info.bound

\* C10: a save keeps the rows the file had, unchanged and in their order, and
\* adds one row at the end; with no file, it creates the file of that one row.
C10_SaveAppendsOneRow ==
    [][(submitted' /\ page_entries' # <<>>) =>
        /\ nutrition_log'.exists
        /\ Len(nutrition_log'.rows) = Len(nutrition_log.rows) + 1
        /\ SubSeq(nutrition_log'.rows, 1, Len(nutrition_log.rows))
              = nutrition_log.rows]_vars

\* C14: the script gets to the call of line 313, the only way to the write
\* of line 338, and so changes the log, only in a run where "Record Meal" was
\* pressed, the profile name is not empty and the entries are not empty, each
\* with a name and a quantity; a run of the nutrition page with no profile
\* or an empty name shows the warning and leaves the log as it was.
ValidEntries(entries) ==
    /\ entries # <<>>
    /\ \A k \in 1..Len(entries) :
          entries[k].name # <<>> /\ entries[k].quantity # <<>>

C14_WriteOnlyByValidSubmission ==
    [][/\ (nutrition_log' # nutrition_log \/ view' = "exception") =>
            /\ submitted'
            /\ profile_set'
            /\ profile_name' # ""
            /\ ValidEntries(page_entries')
       /\ (selection' = "nutrition" /\ (~profile_set' \/ profile_name' = "")) =>
            /\ view' = "warning"
            /\ nutrition_log' = nutrition_log]_vars

\* a submission with a profile name went past line 311 with one entry, the
\* form's other row having a name and no quantity
C14_Witness ==
    /\ view = "exception"
    /\ submitted
    /\ profile_name # ""
    /\ form.num_foods = 2
    /\ Len(page_entries) = 1
    /\ \E k \in 1..2 : form.foods[k].name # <<>> /\ form.foods[k].quantity = <<>>

(***************************************************************************)
(* Several sessions on the nutrition page, each running its own script.    *)
(* One step is one stretch of a script run between two accesses of         *)
(* nutrition_log.csv: Streamlit runs every session's script in its own     *)
(* thread and the file is read (line 332) and rewritten (line 338) with    *)
(* no lock, so the steps of different sessions interleave freely.          *)
(***************************************************************************)
InitSessions ==
    /\ SessionsIdle
    /\ nutrition_log \in ExistingLogs
    /\ profile_set = FALSE
    /\ profile_name = ""
    /\ selection = "profile"
    /\ view = "none"
    /\ form = DefaultForm
    /\ submitted = FALSE
    /\ page_entries = <<>>
    /\ nutrition_info = Unbound
    /\ MatchIdle
    /\ AggIdle
    /\ CleanIdle

\* lines 331-335: existing_data, as read from the file
ReadLog(log) == Bound(log)

\* lines 333-338: the file as rewritten from the frame read earlier
WriteLog(existing_data, row) == SaveMeal(existing_data.value, row)

\* the next stretch of session s's script, by the position it is at:
\*   "profile"    the profile page, a name is typed and the nutrition page
\*                picked (lines 198, 388-391, 274-276)
\*   "warning"    the warning of line 275 is shown; back to the profile page
\*   "form"       the form is filled and "Record Meal" pressed (279-311)
\*   "submitted"  line 311 held: the call of line 313 and the frame of 320
\*   "read"       lines 331-335
\*   "write"      line 338
\*   "shown", "exception"   the run is over; the next one shows the form
SessionStep(s) ==
    LET me == sessions[s]
        call == Call(PageCallArgs(me.entries, FoodDataset))
    IN  CASE me.pc = "profile" ->
                /\ \E name \in ProfileNames :
                      sessions' = [sessions EXCEPT ![s] =
                          [me EXCEPT !.name = name,
                                     !.pc = IF name = "" THEN "warning"
                                            ELSE "form"]]
                /\ UNCHANGED nutrition_log
          [] me.pc = "warning" ->
                /\ sessions' = [sessions EXCEPT ![s].pc = "profile"]
                /\ UNCHANGED nutrition_log
          [] me.pc = "form" ->
                /\ Len(nutrition_log.rows) < MaxLogRows
                /\ \E mt \in MealTypes, n \in 1..MaxFoods :
                   \E rows \in [1..n -> FormRows] :
                      /\ FormEntries([foods |-> rows]) # <<>>
                      /\ sessions' = [sessions EXCEPT ![s] =
                            [me EXCEPT !.meal_type = mt,
                                       !.entries = FormEntries([foods |-> rows]),
                                       !.pc = "submitted"]]
                /\ UNCHANGED nutrition_log
          [] me.pc = "submitted" ->
                /\ sessions' = [sessions EXCEPT ![s] =
                      IF Raised(call) \/ call.pc = "raised"
                      THEN [me EXCEPT !.pc = "exception"]
                      ELSE [me EXCEPT
                              !.row = Bound(meal_data(IntakeDate, me.meal_type,
                                                      ReturnValue(call))),
                              !.pc = "read"]]
                /\ UNCHANGED nutrition_log
          [] me.pc = "read" ->
                /\ sessions' = [sessions EXCEPT ![s] =
                      [me EXCEPT !.existing_data = ReadLog(nutrition_log),
                                 !.pc = "write"]]
                /\ UNCHANGED nutrition_log
          [] me.pc = "write" ->
                /\ nutrition_log' = WriteLog(me.existing_data, me.row.value)
                /\ sessions' = [sessions EXCEPT ![s].pc = "shown"]
          [] me.pc \in {"shown", "exception"} ->
                /\ sessions' = [sessions EXCEPT ![s] =
                      [NoSession EXCEPT !.name = me.name, !.pc = "form"]]
                /\ UNCHANGED nutrition_log

RunSession ==
    /\ \E s \in Sessions : SessionStep(s)
    /\ UNCHANGED <<profile_set, profile_name, selection, view, form,
                   submitted, page_entries, nutrition_info,
                   mvars, avars, cvars>>

NextSessions == RunSession

SpecSessions == InitSessions /\ [][NextSessions]_vars

\* C11: when two sessions save a meal at the same time (both have submitted
\* a form with entries), the interleaving in which both get to the read, both
\* read the file, and then both rewrite it is possible, and it ends with both
\* meals shown as recorded and only one row more in the log than before.
StepOf(s) ==
    /\ SessionStep(s)
    /\ UNCHANGED <<profile_set, profile_name, selection, view, form,
                   submitted, page_entries, nutrition_info,
                   mvars, avars, cvars>>

BothSubmitted == \A s \in Sessions : sessions[s].pc = "submitted"
BothAt(pc) == \A s \in Sessions : sessions[s].pc = pc

\* both sessions were told their meal is recorded, and the log has one row
\* more than the n it had
OneRowLost(n) ==
    /\ BothAt("shown")
    /\ Len(nutrition_log.rows) = n + 1

C11_LostUpdateReachable ==
    BothSubmitted =>
        \E n \in 0..MaxLogRows :
            /\ n = Len(nutrition_log.rows)
            /\ ENABLED (StepOf(1) /\ (ENABLED (StepOf(2) /\ (BothAt("read") /\
                 ENABLED (StepOf(1) /\ (ENABLED (StepOf(2) /\ (BothAt("write") /\
                 ENABLED (StepOf(1) /\ (ENABLED (StepOf(2) /\
                    OneRowLost(n)'))'))'))'))'))')

====
